---- MODULE Spec2Model ----
(***************************************************************************)
(* Model of the investment allocation process of cat_fundraiser:           *)
(* app/services/investment.py (run_investment_process) together with the   *)
(* entity behaviour of app/models/base.py (FinancialTransactionBase).      *)
(***************************************************************************)
EXTENDS Integers, Sequences, FiniteSets, TLC

\* ---------------------------------------------------------------- bounds
MaxAmount == 2      \* largest full_amount of a generically chosen entity
MaxSources == 3     \* longest list of sources handed to the process
MaxClock == 2       \* last value datetime.now() can return

\* ------------------------------------------------------------ data model
\* A nullable DateTime column holds NULL or a time; times are 1, 2, ...
NULL == 0

\* A row of FinancialTransactionBase (the columns the process reads/writes).
Entity(full, invested, fully, created, closed) ==
    [full_amount     |-> full,
     invested_amount |-> invested,
     fully_invested  |-> fully,
     create_date     |-> created,
     close_date      |-> closed]

\* An entity fresh from its constructor: invested_amount 0, not closed.
NewEntity(full, created) == Entity(full, 0, FALSE, created, NULL)

\* full_amount - invested_amount, as both arguments of min() compute it.
RemainingSwapped(e) == e.invested_amount - e.full_amount
Remaining(e) == e.full_amount - e.invested_amount

\* Python's builtin min of two integers.
MinWrong(a, b) == a
Min(a, b) == IF a < b THEN a ELSE b

\* mark_as_fully_invested: sets the flag and stamps close_date with now().
MarkNoCloseDate(e, now) == [e EXCEPT !.fully_invested = TRUE]
mark_as_fully_invested(e, now) ==
    [e EXCEPT !.fully_invested = TRUE, !.close_date = now]

\* The @validates hook that runs on every assignment to invested_amount,
\* before the value is stored.
validate_invested_amount(e, invested_amount, now) ==
    IF invested_amount = e.full_amount /\ ~e.fully_invested
    THEN mark_as_fully_invested(e, now)
    ELSE e

\* entity.invested_amount = v  (validator first, then the store).
SetInvestedAmount(e, v, now) ==
    [validate_invested_amount(e, v, now) EXCEPT !.invested_amount = v]

\* Body of "for entity in [target, source]" for one entity:
\*   entity.invested_amount += transfer_volume
\*   if entity.full_amount == entity.invested_amount:
\*       entity.mark_as_fully_invested()
\* now1 is the time seen by the validator, now2 by the explicit call.
Invest(e, volume, now1, now2) ==
    LET e1 == SetInvestedAmount(e, e.invested_amount + volume, now1)
    IN  IF e1.full_amount = e1.invested_amount
        THEN mark_as_fully_invested(e1, now2)
        ELSE e1

\* "if target.fully_invested: break"
BreakNever(e) == FALSE
TargetFilled(e) == e.fully_invested

\* ----------------------------------------------------------------- state
VARIABLES
    ent,                \* id -> entity: the objects the call works on
    target,             \* id of the target argument
    sources,            \* the sources argument: a sequence of ids
    idx,                \* position of the for loop in sources
    transfer_volume,    \* local of the loop body
    modified_entities,  \* the list being built and returned
    result,             \* the returned list (<<>> until the return)
    pc,                 \* position in run_investment_process
    clock,              \* the latest value datetime.now() has returned
    entry,              \* ent as it was when the call started
    iter0,              \* ent as it was at the head of the current iteration
    db,                 \* committed rows of both tables: id -> row
    nextId,             \* next primary key to hand out
    req,                \* request slot -> the request being handled in it
    last                \* the last request that was answered, and its answer

\* The state of the request layer (endpoints, sessions, database).
appvars == <<db, nextId, req, last>>

vars == <<ent, target, sources, idx, transfer_volume, modified_entities,
          result, pc, clock, entry, iter0, appvars>>

\* ------------------------------------------------- request layer: data
MaxEntities == 3    \* projects and donations ever created in one behaviour
MaxGoal == 3        \* largest full_amount of a project with a large goal
GoalEntities == 2   \* entities created next to a project with a large goal

\* Names a project can be given; NoName is an unset Optional[str].
Names == {"a", "b"}
NoName == ""

\* A stored row: the entity columns plus the table it lives in and, for a
\* project, its unique name (a donation has none).
NewRow(kind, name, full) ==
    [kind            |-> kind,
     name            |-> name,
     full_amount     |-> full,
     invested_amount |-> 0,
     fully_invested  |-> FALSE,
     create_date     |-> NULL,
     close_date      |-> NULL]

\* What a lookup by id yields when there is no such row.
NoRow == [kind |-> "none"]

\* A request slot with no request in it.
IdleReq ==
    [stage |-> "idle", kind |-> "none", name |-> NoName, full |-> 0,
     id |-> 0, loaded |-> <<>>, sess |-> <<>>, touched |-> <<>>]

\* No request answered yet, or a request since the last answer.
NoLast ==
    [op |-> "none", id |-> 0, resp |-> "none"]

\* The request layer before any request, as the engine-only specification
\* keeps it.
AppIdle ==
    /\ db = <<>>
    /\ nextId = 1
    /\ req = [r \in {1, 2} |-> IdleReq]
    /\ last = NoLast

\* -------------------------------------------------------------- inputs
\* Open entities: 0 <= invested_amount < full_amount, not closed.
OpenEntities ==
    UNION {{Entity(f, v, FALSE, 1, NULL) : v \in 0..(f - 1)} : f \in 1..MaxAmount}

\* Closed entities: invested_amount = full_amount, closed at an earlier time.
ClosedEntities ==
    {Entity(f, f, TRUE, 1, 1) : f \in 1..MaxAmount}

InputEntities == OpenEntities \cup ClosedEntities

\* Scenarios A, B and C of the specification, id 0 being the target.
ScenarioA == <<NewEntity(100, 1), NewEntity(50, 1), NewEntity(80, 1)>>
ScenarioB == <<NewEntity(30, 1), NewEntity(100, 1)>>
ScenarioC == <<Entity(50, 40, FALSE, 1, NULL), NewEntity(10, 1)>>
Scenarios == {ScenarioA, ScenarioB, ScenarioC}

\* The entities of a scenario as a function over ids 0..n.
FromScenario(sc) == [x \in 0..(Len(sc) - 1) |-> sc[x + 1]]

SourceIds(n) == [k \in 1..n |-> k]

Init ==
    /\ \/ \E n \in 0..MaxSources : ent \in [0..n -> InputEntities]
       \/ \E sc \in Scenarios : ent = FromScenario(sc)
    /\ target = 0
    /\ sources = SourceIds(Cardinality(DOMAIN ent) - 1)
    /\ idx = 1
    /\ transfer_volume = 0
    /\ modified_entities = <<>>
    /\ result = <<>>
    /\ pc = "loop"
    /\ clock = 2
    /\ entry = ent
    /\ iter0 = ent
    /\ AppIdle

\* ------------------------------------------------- run_investment_process
\* for source in sources:  transfer_volume = min(...)
ComputeTransferVolume ==
    /\ pc = "loop"
    /\ idx <= Len(sources)
    /\ transfer_volume' = Min(Remaining(ent[target]),
                              Remaining(ent[sources[idx]]))
    /\ iter0' = ent
    /\ pc' = "invest_target"
    /\ UNCHANGED <<ent, target, sources, idx, modified_entities, result,
                   clock, entry, appvars>>

\* One pass of the inner loop on entity x, moving on to position next.
InvestEntity(x, next) ==
    \E now1 \in clock..MaxClock :
      \E now2 \in now1..MaxClock :
        LET e == Invest(ent[x], transfer_volume, now1, now2)
        IN  /\ ent' = [ent EXCEPT ![x] = e]
            /\ clock' = IF e.full_amount = e.invested_amount
                        THEN now2 ELSE clock
            /\ pc' = next
            /\ UNCHANGED <<target, sources, idx, transfer_volume,
                           modified_entities, result, entry, iter0, appvars>>

\* first element of [target, source]
InvestTarget ==
    /\ pc = "invest_target"
    /\ InvestEntity(target, "invest_source")

\* second element of [target, source]
InvestSourceSkipped ==
    /\ pc = "invest_source"
    /\ pc' = "append"
    /\ UNCHANGED <<ent, clock, target, sources, idx, transfer_volume,
                   modified_entities, result, entry, iter0, appvars>>
InvestSource ==
    /\ pc = "invest_source"
    /\ InvestEntity(sources[idx], "append")

\* modified_entities.append(source); if target.fully_invested: break
AppendModifiedNoAdvance ==
    /\ pc = "append"
    /\ modified_entities' = Append(modified_entities, sources[idx])
    /\ pc' = IF TargetFilled(ent[target]) THEN "return" ELSE "loop"
    /\ UNCHANGED <<ent, target, sources, idx, transfer_volume, result, clock,
                   entry, iter0, appvars>>
AppendModified ==
    /\ pc = "append"
    /\ modified_entities' = Append(modified_entities, sources[idx])
    /\ IF TargetFilled(ent[target])
       THEN /\ pc' = "return"
            /\ idx' = idx
       ELSE /\ pc' = "loop"
            /\ idx' = idx + 1
    /\ UNCHANGED <<ent, target, sources, transfer_volume, result, clock,
                   entry, iter0, appvars>>

\* the for loop runs out of sources
LoopExhausted ==
    /\ pc = "loop"
    /\ idx > Len(sources)
    /\ pc' = "return"
    /\ UNCHANGED <<ent, target, sources, idx, transfer_volume,
                   modified_entities, result, clock, entry, iter0, appvars>>

\* return modified_entities
Return ==
    /\ pc = "return"
    /\ result' = modified_entities
    /\ pc' = "done"
    /\ UNCHANGED <<ent, target, sources, idx, transfer_volume,
                   modified_entities, clock, entry, iter0, appvars>>

Next ==
    \/ ComputeTransferVolume
    \/ InvestTarget
    \/ InvestSource
    \/ AppendModified
    \/ LoopExhausted
    \/ Return

Spec == Init /\ [][Next]_vars

\* The call is plain synchronous code: once started it runs to its return.
FairSpec == Spec /\ WF_vars(Next)

\* =========================================================== request layer
\* The endpoints of app/api/endpoints, the CRUD helpers of app/crud/base.py
\* and the validators of app/api/validators.py.  Each request works in a
\* session of its own; db holds what has been committed.  A handler runs
\* until its next await; run_investment_process has no await, so the steps
\* of the engine above run without any other request in between.

EngineVars == <<ent, target, sources, idx, transfer_volume,
                modified_entities, result, pc, entry, iter0>>

Opposite(kind) == IF kind = "project" THEN "donation" ELSE "project"

\* The elements of a list.
Members(seq) == {seq[k] : k \in 1..Len(seq)}

\* Every order in which the rows S can come back from a SELECT that has no
\* ORDER BY clause.
Orderings(S) ==
    {seq \in [1..Cardinality(S) -> S] :
        \A i, j \in 1..Cardinality(S) : seq[i] = seq[j] => i = j}

\* No call of run_investment_process is under way.
EngineIdle ==
    /\ ent = <<>>
    /\ target = 0
    /\ sources = <<>>
    /\ idx = 1
    /\ transfer_volume = 0
    /\ modified_entities = <<>>
    /\ result = <<>>
    /\ pc = "idle"
    /\ entry = <<>>
    /\ iter0 = <<>>

\* run_investment_process has returned: its frame is gone.
EngineReturned ==
    /\ ent' = <<>>
    /\ target' = 0
    /\ sources' = <<>>
    /\ idx' = 1
    /\ transfer_volume' = 0
    /\ modified_entities' = <<>>
    /\ result' = <<>>
    /\ pc' = "idle"
    /\ entry' = <<>>
    /\ iter0' = <<>>

\* CRUDBase.get_uninvested: ids of the rows of one table with
\* fully_invested == False; the query has no ORDER BY.
UninvestedAll(d, kind) == {x \in DOMAIN d : d[x].kind = kind}
UninvestedIds(d, kind) ==
    {x \in DOMAIN d : d[x].kind = kind /\ d[x].fully_invested = FALSE}

get_uninvested(d, kind) == Orderings(UninvestedIds(d, kind))

\* CRUDCharityProject.get_charity_project_id_by_name is not None
NameTaken(d, name) ==
    \E x \in DOMAIN d : d[x].kind = "project" /\ d[x].name = name

\* CRUDBase.create: builds the object and adds it to the session; commits
\* only when asked to.  Yields what is committed afterwards.
CreateAlwaysCommits(d, id, row, commit) ==
    [x \in DOMAIN d \cup {id} |-> IF x = id THEN row ELSE d[x]]
create(d, id, row, commit) ==
    IF commit
    THEN [x \in DOMAIN d \cup {id} |-> IF x = id THEN row ELSE d[x]]
    ELSE d

\* The UPDATE a flush emits for a loaded object: only the columns whose
\* value differs from the loaded one are written.
FlushRow(cur, old, new) ==
    [cur EXCEPT
        !.invested_amount = IF new.invested_amount # old.invested_amount
                            THEN new.invested_amount ELSE @,
        !.fully_invested  = IF new.fully_invested # old.fully_invested
                            THEN new.fully_invested ELSE @,
        !.close_date      = IF new.close_date # old.close_date
                            THEN new.close_date ELSE @]

\* create_charity_project up to its first await:
\* check_charity_project_name_duplicate.
CheckName(r, name, full) ==
    /\ pc = "idle"
    /\ req[r].stage = "idle"
    /\ nextId <= MaxEntities
    /\ IF NameTaken(db, name)
       THEN /\ last' = [NoLast EXCEPT !.op = "create_project",
                                      !.resp = "bad_request"]
            /\ req' = req
       ELSE /\ req' = [req EXCEPT ![r] =
                        [IdleReq EXCEPT !.stage = "checked",
                                        !.kind = "project",
                                        !.name = name, !.full = full]]
            /\ last' = NoLast
    /\ UNCHANGED <<EngineVars, clock, db, nextId>>

\* crud.create(commit=False), then "await get_uninvested": the autoflush
\* INSERTs the new row (create_date = now), the SELECT loads the open rows
\* of the other table, and run_investment_process is entered.
StartInvestment(r, kind, name, full) ==
    \E now \in clock..MaxClock :
      \E srcs \in get_uninvested(db, Opposite(kind)) :
        LET id   == nextId
            row  == [NewRow(kind, name, full) EXCEPT !.create_date = now]
            objs == [x \in {id} \cup Members(srcs) |->
                        IF x = id THEN row ELSE db[x]]
        IN  /\ ent' = objs
            /\ target' = id
            /\ sources' = srcs
            /\ idx' = 1
            /\ transfer_volume' = 0
            /\ modified_entities' = <<>>
            /\ result' = <<>>
            /\ pc' = "loop"
            /\ clock' = now
            /\ entry' = objs
            /\ iter0' = objs
            /\ db' = create(db, id, row, FALSE)
            /\ nextId' = nextId + 1
            /\ req' = [req EXCEPT ![r] =
                        [stage |-> "investing", kind |-> kind,
                         name |-> name, full |-> full, id |-> id,
                         loaded |-> objs, sess |-> objs,
                         touched |-> <<>>]]
            /\ last' = NoLast

\* create_charity_project after the name check.
InvestNewProject(r) ==
    /\ pc = "idle"
    /\ req[r].stage = "checked"
    /\ StartInvestment(r, "project", req[r].name, req[r].full)

\* create_donation up to the call of run_investment_process.
InvestNewDonation(r, full) ==
    /\ pc = "idle"
    /\ req[r].stage = "idle"
    /\ nextId <= MaxEntities
    /\ StartInvestment(r, "donation", NoName, full)

\* session.add_all(run_investment_process(...)), up to "await commit": the
\* call has returned, its objects stay in the session of the request.
AddAll(r) ==
    /\ pc = "done"
    /\ req[r].stage = "investing"
    /\ req' = [req EXCEPT ![r].stage = "commit",
                          ![r].sess = ent,
                          ![r].touched = result]
    /\ EngineReturned
    /\ UNCHANGED <<clock, db, nextId, last>>

\* await session.commit(); refresh; return.  The new row and the changed
\* columns of every loaded row become visible in one transaction.
Commit(r) ==
    /\ pc = "idle"
    /\ req[r].stage = "commit"
    /\ LET q == req[r]
       IN  /\ db' = [x \in DOMAIN db \cup {q.id} |->
                        IF x = q.id THEN q.sess[x]
                        ELSE IF x \in DOMAIN q.sess
                             THEN FlushRow(db[x], q.loaded[x], q.sess[x])
                             ELSE db[x]]
           /\ last' = [NoLast EXCEPT
                          !.op = IF q.kind = "project"
                                 THEN "create_project"
                                 ELSE "create_donation",
                          !.id = q.id, !.resp = "ok"]
    /\ req' = [req EXCEPT ![r] = IdleReq]
    /\ UNCHANGED <<EngineVars, clock, nextId>>

\* check_charity_project_exist: the row, or NoRow for a 404.
check_charity_project_exist(d, id) ==
    IF id \in DOMAIN d /\ d[id].kind = "project" THEN d[id] ELSE NoRow

\* ensure_project_has_no_investment passes.
HasNoInvestmentAlways(row) == TRUE
ensure_project_has_no_investment(row) == row.invested_amount = 0

\* ensure_project_is_not_closed passes: it looks at close_date.
ensure_project_is_not_closed(row) == row.close_date = NULL

\* ensure_full_amount_greater_than_invested passes.
FullAmountAlwaysAccepted(invested_amount, new_full_amount) == TRUE
ensure_full_amount_greater_than_invested(invested_amount, new_full_amount) ==
    ~(new_full_amount < invested_amount)

\* CRUDBase.update: the fields set in the request are assigned; when the new
\* full_amount equals invested_amount, fully_invested is assigned True and
\* the time goes to the key 'close_data', which is no column of the row.
update(row, name, full) ==
    LET closes == full # NULL /\ full = row.invested_amount
    IN  [row EXCEPT
            !.name           = IF name # NoName THEN name ELSE @,
            !.full_amount    = IF full # NULL THEN full ELSE @,
            !.fully_invested = IF closes THEN TRUE ELSE @]

\* The answer of update_charity_project.
UpdateResponse(d, id, name, full) ==
    LET row == check_charity_project_exist(d, id)
    IN  IF row = NoRow THEN "not_found"
        ELSE IF ~ensure_project_is_not_closed(row) THEN "bad_request"
        ELSE IF name # NoName /\ NameTaken(d, name) THEN "bad_request"
        ELSE IF full # NULL
                /\ ~ensure_full_amount_greater_than_invested(
                        row.invested_amount, full)
             THEN "unprocessable"
        ELSE "ok"

\* update_charity_project (PATCH): name and full_amount may be unset.
update_charity_project(r, id, name, full) ==
    /\ pc = "idle"
    /\ req[r].stage = "idle"
    /\ LET resp == UpdateResponse(db, id, name, full)
       IN  /\ db' = IF resp = "ok"
                    THEN [db EXCEPT ![id] = update(db[id], name, full)]
                    ELSE db
           /\ last' = [op |-> "update", id |-> id, resp |-> resp]
    /\ UNCHANGED <<EngineVars, clock, nextId, req>>

\* The answer of delete_charity_project.
DeleteResponse(d, id) ==
    LET row == check_charity_project_exist(d, id)
    IN  IF row = NoRow THEN "not_found"
        ELSE IF ~ensure_project_has_no_investment(row) THEN "bad_request"
        ELSE IF ~ensure_project_is_not_closed(row) THEN "bad_request"
        ELSE "ok"

\* delete_charity_project (DELETE).
delete_charity_project(r, id) ==
    /\ pc = "idle"
    /\ req[r].stage = "idle"
    /\ LET resp == DeleteResponse(db, id)
       IN  /\ db' = IF resp = "ok"
                    THEN [x \in DOMAIN db \ {id} |-> db[x]]
                    ELSE db
           /\ last' = [op |-> "delete", id |-> id, resp |-> resp]
    /\ UNCHANGED <<EngineVars, clock, nextId, req>>

\* The application at start-up: empty tables, no request, engine idle.
AppInit ==
    /\ EngineIdle
    /\ clock = 1
    /\ AppIdle

\* The steps of one request handled in slot r.
CreateProject(r) ==
    \/ \E name \in Names : \E full \in 1..MaxAmount : CheckName(r, name, full)
    \/ InvestNewProject(r)

CreateDonation(r) ==
    \E full \in 1..MaxAmount : InvestNewDonation(r, full)

\* The project_id of a request: a stored project, or 0 for any id that
\* check_charity_project_exist does not find.
ProjectIds == {x \in DOMAIN db : db[x].kind = "project"} \cup {0}

\* The bodies of the PATCH requests tried: nothing set, a name, or a
\* full_amount (a body setting both reaches no other stored state).
UpdateBodies ==
    {<<NoName, NULL>>}
        \cup {<<name, NULL>> : name \in Names}
        \cup {<<NoName, full>> : full \in 1..MaxAmount}

UpdateProject(r) ==
    \E id \in ProjectIds :
      \E body \in UpdateBodies :
        update_charity_project(r, id, body[1], body[2])

DeleteProject(r) ==
    \E id \in ProjectIds : delete_charity_project(r, id)

\* Requests handled one after the other.
AppNext ==
    \/ CreateProject(1)
    \/ CreateDonation(1)
    \/ AddAll(1)
    \/ Commit(1)
    \/ UpdateProject(1)
    \/ DeleteProject(1)
    \/ Next

AppSpec == AppInit /\ [][AppNext]_vars

\* Two create requests at a time, interleaved at their awaits.
ConcNext ==
    \/ \E r \in {1, 2} : CreateProject(r)
    \/ \E r \in {1, 2} : CreateDonation(r)
    \/ \E r \in {1, 2} : AddAll(r)
    \/ \E r \in {1, 2} : Commit(r)
    \/ Next

ConcSpec == AppInit /\ [][ConcNext]_vars

\* Projects whose goal exceeds every single donation, and PATCH requests
\* that move the goal, handled one after the other.
CreateGoalProject(r) ==
    \/ /\ nextId <= GoalEntities
       /\ \E name \in Names : \E full \in 1..MaxGoal : CheckName(r, name, full)
    \/ InvestNewProject(r)

CreateGoalDonation(r) ==
    /\ nextId <= GoalEntities
    /\ CreateDonation(r)

UpdateGoal(r) ==
    \E id \in ProjectIds :
      \E full \in 1..MaxGoal :
        update_charity_project(r, id, NoName, full)

GoalNext ==
    \/ CreateGoalProject(1)
    \/ CreateGoalDonation(1)
    \/ AddAll(1)
    \/ Commit(1)
    \/ UpdateGoal(1)
    \/ Next

GoalSpec == AppInit /\ [][GoalNext]_vars

\* ================================================================ claims
\* Helpers of the properties (independent of the operators of the model).
Smaller(a, b) == IF a <= b THEN a ELSE b
Capacity(e) == e.full_amount - e.invested_amount
Range(seq) == {seq[k] : k \in 1..Len(seq)}
Increase(x) == ent[x].invested_amount - entry[x].invested_amount

RECURSIVE SumIncrease(_)
SumIncrease(seq) ==
    IF seq = <<>> THEN 0 ELSE Increase(Head(seq)) + SumIncrease(Tail(seq))

IsOpen(e) ==
    /\ 0 <= e.invested_amount
    /\ e.invested_amount < e.full_amount
    /\ ~e.fully_invested
    /\ e.close_date = NULL

\* The open-entity precondition held when the call started.
Pre == \A x \in DOMAIN entry : IsOpen(entry[x])

\* C1 - Conservation: on inputs satisfying the open-entity precondition,
\* when the call has returned, the increase of the target's invested_amount
\* equals the sum of the increases over the returned sources, and no entity
\* other than the target and the returned sources changed invested_amount.
C1_Conservation ==
    (pc = "done" /\ Pre) =>
        /\ Increase(target) = SumIncrease(result)
        /\ \A x \in DOMAIN ent :
               (x # target /\ x \notin Range(result)) => Increase(x) = 0

C1_Witness ==
    /\ pc = "done"
    /\ Pre
    /\ Len(result) = 2
    /\ Len(sources) = 3
    /\ Increase(target) = 2
    /\ Increase(result[1]) = 1
    /\ Increase(result[2]) = 1

\* C2 - Bounds: if on entry every entity has 0 <= invested_amount <
\* full_amount, then in every state of the call, intermediate ones included,
\* every entity has 0 <= invested_amount <= full_amount.
C2_Bounds ==
    Pre => \A x \in DOMAIN ent :
               /\ 0 <= ent[x].invested_amount
               /\ ent[x].invested_amount <= ent[x].full_amount

C2_Witness ==
    /\ Pre
    /\ pc = "invest_source"
    /\ ent[target].invested_amount = ent[target].full_amount
    /\ Increase(target) > 0
    /\ Capacity(ent[sources[idx]]) > transfer_volume

\* C3 - Closure consistency: when the call has returned on inputs satisfying
\* the precondition, every entity has fully_invested true exactly when
\* invested_amount = full_amount, and close_date non-null exactly when
\* fully_invested is true.
C3_ClosureConsistency ==
    (pc = "done" /\ Pre) =>
        \A x \in DOMAIN ent :
            /\ ent[x].fully_invested
                   <=> (ent[x].invested_amount = ent[x].full_amount)
            /\ (ent[x].close_date # NULL) <=> ent[x].fully_invested

C3_Witness ==
    /\ pc = "done"
    /\ Pre
    /\ ent[target].fully_invested
    /\ \E x \in Range(result) : ent[x].fully_invested /\ ent[x].close_date # NULL
    /\ \E x \in Range(result) : ~ent[x].fully_invested

\* C4 - Order respected / early stop: sources are visited in list order (the
\* sources after the current position are untouched and not in the list
\* being built, which is a prefix of sources), and once the target's
\* remaining capacity is consumed at the k-th source the loop never returns
\* to its head, so every source after k keeps all its fields and is not
\* returned.
C4_OrderEarlyStop ==
    /\ \A j \in (idx + 1)..Len(sources) :
           /\ ent[sources[j]] = entry[sources[j]]
           /\ sources[j] \notin Range(modified_entities)
    /\ modified_entities = SubSeq(sources, 1, Len(modified_entities))
    /\ (pc = "loop" /\ idx > 1) => Capacity(ent[target]) > 0
    /\ pc \in {"return", "done"} => Len(modified_entities) <= idx
    /\ pc = "done" => result = modified_entities

C4_Witness ==
    /\ pc = "done"
    /\ Capacity(entry[target]) > 0
    /\ Capacity(ent[target]) = 0
    /\ Len(result) = 2
    /\ Len(sources) = 3
    /\ ent[sources[3]] = entry[sources[3]]

\* C5 - Idempotence of no-op: a call whose target is already fully invested
\* returns an empty list and changes no field of any entity.
C5_NoOpOnClosedTarget ==
    (/\ pc = "done"
     /\ entry[target].invested_amount = entry[target].full_amount
     /\ entry[target].fully_invested) =>
        /\ result = <<>>
        /\ ent = entry

\* C6 - Transfer volume: at each visited source the amount moved is the
\* smaller of the two remaining capacities as they were before the step, it
\* is added to the target and to the source; when the target's remaining
\* capacity is the strictly smaller one the target closes and the source
\* stays open, increased by exactly the target's remaining capacity.
C6_TransferVolume ==
    pc \in {"invest_source", "append"} =>
        LET s  == sources[idx]
            rt == Capacity(iter0[target])
            rs == Capacity(iter0[s])
            v  == Smaller(rt, rs)
        IN  /\ transfer_volume = v
            /\ ent[target].invested_amount = iter0[target].invested_amount + v
            /\ pc = "invest_source" => ent[s] = iter0[s]
            /\ pc = "append" =>
                   /\ ent[s].invested_amount = iter0[s].invested_amount + v
                   /\ rt < rs =>
                          /\ ent[target].fully_invested
                          /\ ent[target].invested_amount = ent[target].full_amount
                          /\ ~ent[s].fully_invested
                          /\ ent[s].invested_amount
                                 = iter0[s].invested_amount + rt
                          /\ ent[s].invested_amount < ent[s].full_amount

C6_Witness ==
    /\ pc = "append"
    /\ Len(sources) = 1
    /\ entry[target] = [full_amount |-> 30, invested_amount |-> 0,
                        fully_invested |-> FALSE, create_date |-> 1,
                        close_date |-> NULL]
    /\ entry[1].full_amount = 100
    /\ ent[target].fully_invested
    /\ ent[1].invested_amount = 30
    /\ ~ent[1].fully_invested

\* C7 - Return value: on inputs satisfying the precondition the returned list
\* is exactly the sources that received a strictly positive transfer, in the
\* order processed (a prefix of the input list), and never holds the target.
C7_ReturnValue ==
    (pc = "done" /\ Pre) =>
        /\ Len(result) <= Len(sources)
        /\ \A k \in 1..Len(result) :
               /\ result[k] = sources[k]
               /\ Increase(sources[k]) > 0
               /\ result[k] # target
        /\ \A k \in (Len(result) + 1)..Len(sources) :
               Increase(sources[k]) = 0

C7_Witness ==
    /\ pc = "done"
    /\ Pre
    /\ result = <<1, 2>>
    /\ Len(sources) = 3
    /\ Increase(3) = 0

\* C8 - Scenario A: target 100/0 with sources 50/0 and 80/0 ends with
\* source1 at 50 and closed, source2 at 50 and open, the target at 100 and
\* closed, and returns [source1, source2].
C8_IsScenarioA ==
    /\ DOMAIN entry = 0..2
    /\ entry[0].full_amount = 100 /\ entry[0].invested_amount = 0
    /\ entry[1].full_amount = 50 /\ entry[1].invested_amount = 0
    /\ entry[2].full_amount = 80 /\ entry[2].invested_amount = 0
    /\ Pre

C8_ScenarioA ==
    (pc = "done" /\ C8_IsScenarioA) =>
        /\ ent[1].invested_amount = 50
        /\ ent[1].fully_invested /\ ent[1].close_date # NULL
        /\ ent[2].invested_amount = 50
        /\ ~ent[2].fully_invested /\ ent[2].close_date = NULL
        /\ ent[0].invested_amount = 100
        /\ ent[0].fully_invested /\ ent[0].close_date # NULL
        /\ result = <<1, 2>>

C8_Witness == pc = "done" /\ C8_IsScenarioA /\ Len(result) = 2

\* C9 - Simultaneous close: whenever the target's remaining capacity equals
\* the current source's, that loop step leaves both fully invested
\* (fully_invested, close_date set, invested_amount = full_amount) and the
\* loop stops at that source instead of returning to its head.
C9_SimultaneousClose ==
    /\ (/\ pc \in {"append", "return", "done"}
        /\ idx <= Len(sources)
        /\ Capacity(iter0[target]) = Capacity(iter0[sources[idx]])) =>
           \A x \in {target, sources[idx]} :
               /\ ent[x].fully_invested
               /\ ent[x].close_date # NULL
               /\ ent[x].invested_amount = ent[x].full_amount
    /\ (pc = "loop" /\ idx > 1) =>
           Capacity(iter0[target]) # Capacity(iter0[sources[idx - 1]])

C9_Witness ==
    /\ pc = "done"
    /\ Len(sources) = 1
    /\ entry[target].full_amount = 50 /\ entry[target].invested_amount = 40
    /\ entry[1].full_amount = 10 /\ entry[1].invested_amount = 0
    /\ ent[target].fully_invested /\ ent[1].fully_invested
    /\ result = <<1>>

\* C10 - Zero-capacity edge case: a loop step that meets a source or a target
\* with zero remaining capacity computes a transfer volume of zero and
\* leaves every field of both entities unchanged.
C10_ZeroCapacityNoChange ==
    (/\ pc = "append"
     /\ \/ Capacity(iter0[target]) = 0
        \/ Capacity(iter0[sources[idx]]) = 0) =>
        /\ transfer_volume = 0
        /\ ent[target] = iter0[target]
        /\ ent[sources[idx]] = iter0[sources[idx]]

\* ------------------------------------------------- claims on the requests

Rows == DOMAIN db
Kept == DOMAIN db \cap DOMAIN db'
InSession == DOMAIN ent \cap DOMAIN ent'
InFlight(r) == req[r].stage \in {"investing", "commit"}
Quiescent == \A r \in DOMAIN req : req[r].stage = "idle"

RECURSIVE SumInvested(_, _)
SumInvested(d, S) ==
    IF S = {} THEN 0
    ELSE LET x == CHOOSE y \in S : TRUE
         IN  d[x].invested_amount + SumInvested(d, S \ {x})

InvestedOf(d, kind) == SumInvested(d, {x \in DOMAIN d : d[x].kind = kind})

\* An update request was answered in this step.
UpdateAnswered(x) ==
    /\ last'.op = "update"
    /\ last'.id = x
    /\ (last' # last \/ db' # db)

\* A delete request was answered in this step.
DeleteAnswered(x) ==
    /\ last'.op = "delete"
    /\ last'.id = x
    /\ (last' # last \/ db' # db)

C12_FullyInvestedDerived ==
    \A x \in Rows :
        db[x].fully_invested <=> (db[x].invested_amount = db[x].full_amount)

\* C13 - closing by administrative update: a stored project has a non-null
\* close_date exactly when fully_invested is true, also after an update
\* that set full_amount equal to invested_amount.
C13_UpdateCloses ==
    \A x \in Rows :
        db[x].kind = "project" =>
            (db[x].fully_invested <=> db[x].close_date # NULL)

\* C14 - a closed project cannot be edited: an update request on a project
\* whose fully_invested is true is rejected and leaves the stored state
\* unchanged.
C14_ClosedNotEditable ==
    [][\A x \in Rows :
          (db[x].fully_invested /\ UpdateAnswered(x)) =>
              /\ last'.resp # "ok"
              /\ db' = db]_vars

\* C15 - deletion guard: a delete request removes a project only if its
\* invested_amount is 0; a delete request on a project with a non-zero
\* invested_amount is rejected and leaves the project stored unchanged.
C15_DeletionGuard ==
    [][/\ \A x \in Rows \ DOMAIN db' :
             /\ db[x].kind = "project"
             /\ db[x].invested_amount = 0
             /\ last' = [op |-> "delete", id |-> x, resp |-> "ok"]
       /\ \A x \in Rows :
             (db[x].invested_amount # 0 /\ DeleteAnswered(x)) =>
                 /\ last'.resp = "bad_request"
                 /\ db' = db]_vars

C15_Witness ==
    \E x \in Rows :
        /\ db[x].invested_amount # 0
        /\ ~db[x].fully_invested
        /\ last = [op |-> "delete", id |-> x, resp |-> "bad_request"]

\* C16 - creation-order allocation: when a create handler calls the engine,
\* sources is the list of the stored opposite-kind entities with
\* fully_invested false in ascending create_date order.
C16_CreationOrder ==
    \A r \in DOMAIN req :
        req[r].stage = "investing" =>
            /\ Range(sources) =
                   {x \in Rows : /\ db[x].kind = Opposite(req[r].kind)
                                 /\ ~db[x].fully_invested}
            /\ \A i \in 1..Len(sources) : \A j \in 1..Len(sources) :
                   i < j => db[sources[i]].create_date
                                <= db[sources[j]].create_date

\* C17 - serialized concurrent creation: whenever no request is in flight,
\* the committed state is one a serial order of the requests produces: no
\* entity has invested_amount above full_amount and the invested amounts of
\* the projects sum to the invested amounts of the donations.
C17_Serialized ==
    Quiescent =>
        /\ \A x \in Rows : db[x].invested_amount <= db[x].full_amount
        /\ InvestedOf(db, "project") = InvestedOf(db, "donation")

\* C18 - atomic persistence: while a create request allocates, nothing of
\* it is committed (the new entity is not stored and every loaded source is
\* stored as it was loaded), so no committed state holds the target's new
\* invested_amount without the touched sources' new values.
C18_AtomicPersistence ==
    /\ \A r \in DOMAIN req :
           InFlight(r) =>
               /\ req[r].id \notin Rows
               /\ \A x \in DOMAIN req[r].loaded \ {req[r].id} :
                      /\ x \in Rows
                      /\ db[x] = req[r].loaded[x]
    /\ InvestedOf(db, "project") = InvestedOf(db, "donation")

C18_Witness ==
    /\ req[1].stage = "commit"
    /\ Len(req[1].touched) >= 1
    /\ req[1].sess[req[1].id].invested_amount > 0
    /\ req[1].id \notin Rows
    /\ \E x \in Range(req[1].touched) : db[x].invested_amount = 0

\* C19 - closed entities are never reopened: once a stored entity has
\* fully_invested true it keeps it true and its invested_amount never
\* changes, and no entity handed to the engine as a source is closed.
C19_NeverReopened ==
    /\ [][\A x \in Kept :
             db[x].fully_invested =>
                 /\ db'[x].fully_invested
                 /\ db'[x].invested_amount = db[x].invested_amount]_vars
    /\ [](\A k \in 1..Len(sources) : ~entry[sources[k]].fully_invested)

C19_Witness ==
    \E x \in Rows :
        /\ pc = "loop"
        /\ req[1].stage = "investing"
        /\ db[x].fully_invested
        /\ db[x].kind = Opposite(req[1].kind)
        /\ x \notin Range(sources)

\* C20 - totality: for every input satisfying the precondition the engine
\* returns after at most len(sources) loop iterations, visiting each source
\* at most once.
C20_Totality ==
    /\ [](Pre =>
            /\ pc \in {"invest_target", "invest_source", "append"} =>
                   /\ idx <= Len(sources)
                   /\ Len(modified_entities) = idx - 1
            /\ Len(modified_entities) <= Len(sources)
            /\ \A i \in 1..Len(modified_entities) :
                   \A j \in 1..Len(modified_entities) :
                       i # j => modified_entities[i] # modified_entities[j])
    /\ (Pre /\ pc = "loop") ~> (pc = "done")

C20_Witness ==
    /\ Pre
    /\ pc = "done"
    /\ Len(sources) >= 2
    /\ Len(result) = Len(sources)

\* C21 - update cannot lower the goal below what is invested: an update
\* request whose full_amount is less than the project's invested_amount is
\* rejected with an error and leaves the stored state unchanged, and after
\* an accepted update the project has invested_amount <= full_amount.
C21_GoalNotBelowInvested ==
    [][\A x \in Rows :
          UpdateAnswered(x) =>
              /\ \A full \in 1..MaxGoal :
                     (/\ full < db[x].invested_amount
                      /\ update_charity_project(1, x, NoName, full)) =>
                         /\ last'.resp # "ok"
                         /\ db' = db
              /\ last'.resp = "ok" =>
                     db'[x].invested_amount <= db'[x].full_amount]_vars

C21_Witness ==
    \E x \in Rows :
        /\ last = [op |-> "update", id |-> x, resp |-> "unprocessable"]
        /\ ~db[x].fully_invested
        /\ db[x].invested_amount >= 2
        /\ db[x].full_amount > db[x].invested_amount

\* C22 - global conservation: after any sequence of create-project,
\* create-donation, update-project and delete-project requests handled one
\* after the other, the invested amounts of the stored projects sum to the
\* invested amounts of the stored donations.
C22_GlobalConservation ==
    (Quiescent /\ pc = "idle") =>
        InvestedOf(db, "project") = InvestedOf(db, "donation")

C22_Witness ==
    /\ Quiescent
    /\ last.op = "delete"
    /\ last.resp = "ok"
    /\ InvestedOf(db, "project") >= 1
    /\ InvestedOf(db, "donation") >= 1

CreateCommitted == last.op \in {"create_project", "create_donation"}
                       /\ last.resp = "ok"

OpenRows(kind) == {x \in Rows : db[x].kind = kind /\ ~db[x].fully_invested}

\* C23 - no idle money next to an open project: after a create-project or
\* create-donation request has committed, the stored state does not hold
\* both a project and a donation with fully_invested false; and when the
\* engine has left the target of such a request open, every source it was
\* given is fully invested.
C23_NoIdleMoney ==
    /\ CreateCommitted => (OpenRows("project") = {} \/ OpenRows("donation") = {})
    /\ (InFlight(1) /\ pc = "done" /\ ~ent[target].fully_invested) =>
           \A k \in 1..Len(sources) : ent[sources[k]].fully_invested

C23_Witness ==
    /\ last = [op |-> "create_project", id |-> last.id, resp |-> "ok"]
    /\ last.id \in OpenRows("project")
    /\ db[last.id].invested_amount >= 1
    /\ \E y \in Rows : db[y].kind = "donation" /\ db[y].fully_invested

\* C24 - at most one partially filled source: after the engine returns on
\* inputs satisfying the precondition, every returned source except
\* possibly the last is fully invested, and the last returned source is
\* open only if the target became fully invested.
C24_OnePartialSource ==
    (Pre /\ pc = "done") =>
        /\ \A k \in 1..(Len(result) - 1) : ent[result[k]].fully_invested
        /\ (/\ Len(result) >= 1
            /\ ~ent[result[Len(result)]].fully_invested) =>
               ent[target].fully_invested

C24_Witness ==
    /\ Pre
    /\ pc = "done"
    /\ Len(result) >= 2
    /\ ~ent[result[Len(result)]].fully_invested
    /\ ent[result[Len(result)]].invested_amount
           > entry[result[Len(result)]].invested_amount
    /\ ent[target].fully_invested

\* C25 - engine frame: the engine never changes full_amount or create_date
\* of the target or of a source, never decreases an invested_amount, and
\* adds or removes no entity; it writes only invested_amount,
\* fully_invested and close_date.
C25_EngineFrame ==
    /\ DOMAIN ent = DOMAIN entry
    /\ DOMAIN iter0 = DOMAIN entry
    /\ \A x \in DOMAIN entry :
           /\ ent[x].full_amount = entry[x].full_amount
           /\ ent[x].create_date = entry[x].create_date
           /\ entry[x].invested_amount <= iter0[x].invested_amount
           /\ iter0[x].invested_amount <= ent[x].invested_amount
           /\ ent[x] = [entry[x] EXCEPT
                           !.invested_amount = ent[x].invested_amount,
                           !.fully_invested = ent[x].fully_invested,
                           !.close_date = ent[x].close_date]

C25_Witness ==
    /\ pc = "done"
    /\ Len(result) >= 1
    /\ \E x \in DOMAIN entry :
           /\ ent[x].invested_amount > entry[x].invested_amount
           /\ ent[x].fully_invested /\ ~entry[x].fully_invested
           /\ ent[x].close_date # entry[x].close_date

====
